---- MODULE Spec2Model ----
(***************************************************************************)
(* Model of the portfolio API of src/main.py: the request handlers         *)
(* list_projects, get_project and submit_contact, the Sample Dataset they  *)
(* fall back to, and the document store they read and write.               *)
(*                                                                         *)
(* The store is an external service shared by every request.  A handler    *)
(* that makes one store call is one action.  list_projects makes up to     *)
(* five store calls (query, three seed writes, re-query); each of its      *)
(* store calls is one step, so that requests served by different worker    *)
(* processes interleave at the store.  SpecSerial is the same program with *)
(* the handlers run one at a time (one event loop: the handlers hold no    *)
(* await).                                                                 *)
(*                                                                         *)
(* A handler's response is held in last until Deliver hands it to the      *)
(* caller; the handing over touches nothing else, so it is taken before    *)
(* the next store call of any request.                                     *)
(*                                                                         *)
(* Every store call may raise; a call that raises leaves the store as it   *)
(* was.  An absent value (Python None) is the empty sequence, a present    *)
(* value x is <<x>>.                                                       *)
(***************************************************************************)
EXTENDS Integers, Sequences, FiniteSets, TLC

VARIABLES db, project, message, lp, last

vars == <<db, project, message, lp, last>>

----------------------------------------------------------------------------
(* Bounds *)

\* limits range over None and 0 .. MaxLimit
MaxLimit == 3
\* the message collection is capped at this many records
MaxMessages == 1

(* Program constants *)

\* limit=limit or 50
DefaultLimit == 50

None == <<>>
Some(x) == <<x>>

Workers == {"w1", "w2"}

SAMPLE_PROJECTS ==
  << [ title |-> "Immersive Brand Microsite",
       role |-> "Lead 3D & Frontend",
       year |-> 2024,
       description |-> "A lightweight WebGL brand experience with scroll-driven narrative and Spline-authored hero.",
       tech |-> <<"React", "Three.js", "Spline", "Framer Motion">>,
       images |-> <<"https://images.unsplash.com/photo-1517694712202-14dd9538aa97?q=80&w=1600&auto=format&fit=crop",
                    "https://images.unsplash.com/photo-1504639725590-34d0984388bd?q=80&w=1600&auto=format&fit=crop">>,
       slug |-> "immersive-brand-microsite",
       featured |-> TRUE,
       url |-> "https://example.com/project/immersive-brand-microsite" ],
     [ title |-> "Realtime Product Configurator",
       role |-> "3D Developer",
       year |-> 2023,
       description |-> "GPU-optimized configurator with LOD meshes, compressed textures, and AR preview.",
       tech |-> <<"React", "r3f", "GLTF", "WebGL">>,
       images |-> <<"https://images.unsplash.com/photo-1518779578993-ec3579fee39f?q=80&w=1600&auto=format&fit=crop">>,
       slug |-> "realtime-product-configurator",
       featured |-> TRUE,
       url |-> "https://example.com/project/realtime-product-configurator" ],
     [ title |-> "Data-Driven Portfolio Engine",
       role |-> "Full-Stack Engineer",
       year |-> 2022,
       description |-> "Composable portfolio with CMS, structured data, and blazing-fast edge rendering.",
       tech |-> <<"Next.js", "MongoDB", "Edge Runtime">>,
       images |-> <<"https://images.unsplash.com/photo-1516259762381-22954d7d3ad2?q=80&w=1600&auto=format&fit=crop">>,
       slug |-> "data-driven-portfolio-engine",
       featured |-> TRUE,
       url |-> "https://example.com/project/data-driven-portfolio-engine" ] >>

\* class ContactRequest: name, email, message, all strings
ContactRequest ==
  { [name |-> "A", email |-> "a@b.com", message |-> "hi"] }

----------------------------------------------------------------------------
(* Inputs *)

Limits == {None} \cup { Some(n) : n \in 0..MaxLimit }

Slugs == { "immersive-brand-microsite", "data-driven-portfolio-engine",
           "studio-showreel", "does-not-exist" }

\* Records the store may hold before the program first touches it: the
\* collection is empty, or holds a record somebody else wrote.
StoredBefore ==
  { << >>,
    << [ _id |-> 0, title |-> "Studio Showreel", role |-> "Director",
         year |-> 2021, description |-> "Reel.", tech |-> <<"Blender">>,
         images |-> << >>, slug |-> "studio-showreel", featured |-> FALSE,
         url |-> "https://example.com/project/studio-showreel" ] >>,
    << [ _id |-> 0, title |-> "Immersive Brand Microsite (2025 edition)",
         role |-> "Lead 3D & Frontend", year |-> 2025,
         description |-> "Reworked.", tech |-> <<"React">>,
         images |-> << >>, slug |-> "immersive-brand-microsite",
         featured |-> TRUE,
         url |-> "https://example.com/project/immersive-brand-microsite" ] >> }

----------------------------------------------------------------------------
(* Python helpers *)

Min(a, b) == IF a < b THEN a ELSE b
Max(a, b) == IF a > b THEN a ELSE b

\* truth value of an Optional[int]: None and 0 are false
Truthy(limit) == limit # None /\ limit[1] # 0

\* s[:n]
PySlice(s, n) ==
  IF n >= 0 THEN SubSeq(s, 1, Min(n, Len(s)))
            ELSE SubSeq(s, 1, Max(Len(s) + n, 0))

\* str(ObjectId)
Str(oid) == ToString(oid)

----------------------------------------------------------------------------
(* The document store accessor (database.py) *)

\* the records of a collection that match a filter, in insertion order
Matching(coll, filter) ==
  SelectSeq(coll, LAMBDA d : \A k \in DOMAIN filter :
                               k \in DOMAIN d /\ d[k] = filter[k])

\* get_documents(collection, filter, limit): the first limit matching
\* records (the handlers pass a limit of 1 or more)
get_documents(coll, filter, limit) ==
  LET m == Matching(coll, filter)
  IN  SubSeq(m, 1, Min(limit, Len(m)))

\* the identifier the store gives the next record of a collection: one no
\* record of the collection carries (records are never deleted)
NewId(coll) == Len(coll) + 1

\* the record create_document inserts for document doc under identifier oid
Inserted(doc, oid) == ("_id" :> oid) @@ doc

\* the value create_document returns for an insert under identifier oid
InsertedId(oid) == Str(oid)

----------------------------------------------------------------------------
(* Handler logic *)

\* limit or 50, with the limit dropped
QueryLimitDefaultOnly(limit) == DefaultLimit

\* limit or 50
QueryLimit(limit) == IF Truthy(limit) THEN limit[1] ELSE DefaultLimit

\* d["id"] = str(d["_id"]), the pop forgotten
ExposeIdKeepsInternal(d) ==
  IF "_id" \in DOMAIN d THEN ("id" :> Str(d["_id"])) @@ d ELSE d

\* if "_id" in d: d["id"] = str(d.pop("_id"))
ExposeId(d) ==
  IF "_id" \in DOMAIN d
    THEN [ k \in (DOMAIN d \ {"_id"}) \cup {"id"} |->
             IF k = "id" THEN Str(d["_id"]) ELSE d[k] ]
    ELSE d

\* for d in docs: ...
ExposeIds(docs) == [ i \in 1..Len(docs) |-> ExposeId(docs[i]) ]

\* data = SAMPLE_PROJECTS, the slice forgotten
FallbackIgnoresLimit(limit) == SAMPLE_PROJECTS

\* data = SAMPLE_PROJECTS[:limit] if limit else SAMPLE_PROJECTS
Fallback(limit) ==
  IF Truthy(limit) THEN PySlice(SAMPLE_PROJECTS, limit[1]) ELSE SAMPLE_PROJECTS

\* the seeding made unconditional
NeedsSeedAlways(docs) == TRUE

\* if not docs
NeedsSeed(docs) == Len(docs) = 0

\* the try around the whole loop instead of around each write
AfterSeedAbortsOnFailure(i, raises) ==
  IF raises \/ i = Len(SAMPLE_PROJECTS) THEN "requery" ELSE "seed"

\* the seeding loop after its turn i: a write that raised is passed over and
\* the loop goes on; after the last entry comes the re-query
AfterSeed(i, raises) == IF i = Len(SAMPLE_PROJECTS) THEN "requery" ELSE "seed"

\* return {"projects": data}
SampleResult(limit) == [status |-> 200, body |-> [projects |-> Fallback(limit)]]

\* the outer try missing: a query that raises becomes a server error
ListResultSurfacesError(raises, docs, limit) ==
  IF raises THEN [status |-> 500, body |-> [detail |-> "Internal Server Error"]]
            ELSE [status |-> 200, body |-> [projects |-> ExposeIds(docs)]]

\* an empty answer treated like a failed one
ListResultFallbackOnEmpty(raises, docs, limit) ==
  IF raises \/ Len(docs) = 0
    THEN SampleResult(limit)
    ELSE [status |-> 200, body |-> [projects |-> ExposeIds(docs)]]

\* list_projects once its last query has answered docs, or has raised: the
\* outer except passes and the handler goes on to the Sample Dataset
ListResult(raises, docs, limit) ==
  IF raises THEN SampleResult(limit)
            ELSE [status |-> 200, body |-> [projects |-> ExposeIds(docs)]]

\* for p in SAMPLE_PROJECTS: if p["slug"] == slug: return p
SampleBySlug(slug) ==
  LET hits == SelectSeq(SAMPLE_PROJECTS, LAMBDA p : p.slug = slug)
  IN  IF Len(hits) > 0 THEN Some(hits[1]) ELSE None

\* the Sample Dataset scanned before the store's answer is used
ProjectOrNotFoundSampleFirst(docs, slug) ==
  IF SampleBySlug(slug) # None
    THEN [status |-> 200, body |-> SampleBySlug(slug)[1]]
    ELSE IF Len(docs) > 0
      THEN [status |-> 200, body |-> ExposeId(docs[1])]
      ELSE [status |-> 404, body |-> [detail |-> "Project not found"]]

\* get_project once the store has answered docs (no record when the handle
\* is absent or the query raised)
ProjectOrNotFound(docs, slug) ==
  IF Len(docs) > 0
    THEN [status |-> 200, body |-> ExposeId(docs[1])]
    ELSE IF SampleBySlug(slug) # None
      THEN [status |-> 200, body |-> SampleBySlug(slug)[1]]
      ELSE [status |-> 404, body |-> [detail |-> "Project not found"]]

\* msg = MessageSchema(name=payload.name, email=payload.email, message=payload.message)
MessageSchema(payload) ==
  [name |-> payload.name, email |-> payload.email, message |-> payload.message]

\* the store's failure told to the caller
ContactResultSurfacesFailure(_id) ==
  [status |-> IF _id = None THEN "error" ELSE "ok", id |-> _id]

\* submit_contact's body: _id is what create_document returned, None when
\* the handle is absent or the write raised
ContactResult(_id) == [status |-> "ok", id |-> _id]

\* one store call, as the handler saw it
Call(op, coll, arg, ok, result) ==
  [op |-> op, coll |-> coll, arg |-> arg, ok |-> ok, result |-> result]

Idle == [pc |-> "idle", limit |-> None, i |-> 0, calls |-> << >>]

\* no response is on its way to a caller
NoResponse == [op |-> "none"]

Response(op, arg, status, body, calls) ==
  [op |-> op, arg |-> arg, status |-> status, body |-> body, calls |-> calls]

----------------------------------------------------------------------------

Init ==
  /\ db \in BOOLEAN
  /\ project \in StoredBefore
  /\ message = << >>
  /\ lp = [w \in Workers |-> Idle]
  /\ last = NoResponse

\* list_projects up to and including its first store call
ListProjectsBegin(w, limit, raises) ==
  /\ lp[w].pc = "idle"
  /\ last = NoResponse
  /\ UNCHANGED <<db, project, message>>
  /\ IF ~db
       THEN /\ last' = LET r == SampleResult(limit)
                       IN  Response("list_projects", limit, r.status, r.body, << >>)
            /\ UNCHANGED lp
       ELSE LET docs == IF raises THEN << >>
                        ELSE get_documents(project, << >>, QueryLimit(limit))
                c == Call("get_documents", "project", << >>, ~raises, docs)
                r == ListResult(raises, docs, limit)
            IN  IF ~raises /\ NeedsSeed(docs)
                  THEN /\ lp' = [lp EXCEPT ![w] =
                              [pc |-> "seed", limit |-> limit, i |-> 1,
                               calls |-> <<c>>]]
                       /\ UNCHANGED last
                  ELSE /\ last' = Response("list_projects", limit,
                                           r.status, r.body, <<c>>)
                       /\ UNCHANGED lp

\* one turn of the seeding loop: create_document("project", p)
ListProjectsSeed(w, raises) ==
  /\ lp[w].pc = "seed"
  /\ last = NoResponse
  /\ LET p == SAMPLE_PROJECTS[lp[w].i]
         oid == NewId(project)
         c == Call("create_document", "project", p, ~raises,
                   IF raises THEN None ELSE Some(InsertedId(oid)))
     IN  /\ project' = IF raises THEN project
                                 ELSE Append(project, Inserted(p, oid))
         /\ lp' = [lp EXCEPT ![w].i = @ + 1,
                             ![w].calls = Append(@, c),
                             ![w].pc = AfterSeed(lp[w].i, raises)]
  /\ UNCHANGED <<db, message, last>>

\* the re-query after the seeding loop, to the end of the handler
ListProjectsRequery(w, raises) ==
  /\ lp[w].pc = "requery"
  /\ last = NoResponse
  /\ LET limit == lp[w].limit
         docs == IF raises THEN << >>
                 ELSE get_documents(project, << >>, QueryLimit(limit))
         c == Call("get_documents", "project", << >>, ~raises, docs)
         r == ListResult(raises, docs, limit)
     IN  last' = Response("list_projects", limit, r.status, r.body,
                          Append(lp[w].calls, c))
  /\ lp' = [lp EXCEPT ![w] = Idle]
  /\ UNCHANGED <<db, project, message>>

\* get_project(slug)
GetProject(slug, raises) ==
  /\ last = NoResponse
  /\ LET docs == IF db /\ ~raises
                   THEN get_documents(project, [slug |-> slug], 1)
                   ELSE << >>
         calls == IF db
                    THEN << Call("get_documents", "project", slug, ~raises, docs) >>
                    ELSE << >>
         r == ProjectOrNotFound(docs, slug)
     IN  last' = Response("get_project", slug, r.status, r.body, calls)
  /\ UNCHANGED <<db, project, message, lp>>

\* submit_contact(payload)
SubmitContact(payload, raises) ==
  /\ last = NoResponse
  /\ LET msg == MessageSchema(payload)
         oid == NewId(message)
         wrote == db /\ ~raises
         _id == IF wrote THEN Some(InsertedId(oid)) ELSE None
         calls == IF db
                    THEN << Call("create_document", "message", msg, ~raises, _id) >>
                    ELSE << >>
     IN  /\ wrote => Len(message) < MaxMessages
         /\ message' = IF wrote THEN Append(message, Inserted(msg, oid))
                                ELSE message
         /\ last' = Response("submit_contact", payload, 200,
                             ContactResult(_id), calls)
  /\ UNCHANGED <<db, project, lp>>

\* the response leaves the server
Deliver ==
  /\ last # NoResponse
  /\ last' = NoResponse
  /\ UNCHANGED <<db, project, message, lp>>

Next ==
  \/ \E w \in Workers, limit \in Limits, raises \in BOOLEAN :
       ListProjectsBegin(w, limit, raises)
  \/ \E w \in Workers, raises \in BOOLEAN : ListProjectsSeed(w, raises)
  \/ \E w \in Workers, raises \in BOOLEAN : ListProjectsRequery(w, raises)
  \/ \E slug \in Slugs, raises \in BOOLEAN : GetProject(slug, raises)
  \/ \E payload \in ContactRequest, raises \in BOOLEAN :
       SubmitContact(payload, raises)
  \/ Deliver

Spec == Init /\ [][Next]_vars

\* no list_projects request is between two of its store calls
Quiet == \A w \in Workers : lp[w].pc = "idle"

\* the handlers run one at a time, each to its end
NextSerial ==
  \/ \E w \in Workers, limit \in Limits, raises \in BOOLEAN :
       Quiet /\ ListProjectsBegin(w, limit, raises)
  \/ \E w \in Workers, raises \in BOOLEAN : ListProjectsSeed(w, raises)
  \/ \E w \in Workers, raises \in BOOLEAN : ListProjectsRequery(w, raises)
  \/ \E slug \in Slugs, raises \in BOOLEAN :
       Quiet /\ GetProject(slug, raises)
  \/ \E payload \in ContactRequest, raises \in BOOLEAN :
       Quiet /\ SubmitContact(payload, raises)
  \/ Deliver

SpecSerial == Init /\ [][NextSerial]_vars

----------------------------------------------------------------------------
(* Properties *)

\* a limit the contract of the listing admits: absent, or a positive integer
Admissible(limit) == limit = None \/ limit[1] >= 1

\* the first N entries of the Sample Dataset, all of it when N is absent
SamplePrefix(limit) ==
  IF limit = None THEN SAMPLE_PROJECTS
  ELSE SubSeq(SAMPLE_PROJECTS, 1, Min(limit[1], Len(SAMPLE_PROJECTS)))

\* some query of the request raised
ReadRaised(calls) ==
  \E i \in 1..Len(calls) : calls[i].op = "get_documents" /\ ~calls[i].ok

\* C1, as stated: with the store handle absent, list_projects with any
\* integer limit N at most the length of the Sample Dataset returns exactly
\* the first N Sample Dataset entries, in order.
C1_AnyIntegerLimit ==
  (/\ last.op = "list_projects"
   /\ ~db
   /\ last.arg # None
   /\ last.arg[1] <= Len(SAMPLE_PROJECTS))
  => last.body.projects = SubSeq(SAMPLE_PROJECTS, 1, last.arg[1])

\* C1, amended: with the store handle absent, list_projects with any
\* positive integer limit N at most the length of the Sample Dataset returns
\* exactly the first N Sample Dataset entries, in order.
C1_PositiveLimit ==
  (/\ last.op = "list_projects"
   /\ ~db
   /\ last.arg # None
   /\ last.arg[1] >= 1
   /\ last.arg[1] <= Len(SAMPLE_PROJECTS))
  => /\ last.status = 200
     /\ last.body.projects = SubSeq(SAMPLE_PROJECTS, 1, last.arg[1])

C1_Witness ==
  /\ last.op = "list_projects"
  /\ ~db
  /\ last.arg = Some(2)
  /\ Len(last.body.projects) = 2

\* C2: submit_contact with a well-formed payload always answers status "ok";
\* the id is null exactly when the handle is absent or create_document
\* raised, and otherwise is the identifier create_document returned, that of
\* the record now in the message collection.
C2_ContactAlwaysOk ==
  last.op = "submit_contact" =>
    LET wrote == db /\ last.calls[1].ok
    IN  /\ last.status = 200
        /\ last.body.status = "ok"
        /\ (last.body.id = None) <=> ~wrote
        /\ wrote =>
             /\ last.body.id = last.calls[1].result
             /\ Len(message) >= 1
             /\ last.body.id = Some(Str(message[Len(message)]["_id"]))
             /\ message[Len(message)].name = last.arg.name
             /\ message[Len(message)].email = last.arg.email
             /\ message[Len(message)].message = last.arg.message

C2_Witness ==
  /\ last.op = "submit_contact"
  /\ db
  /\ last.body.id # None
  /\ Len(message) = 1

\* C3: get_project(slug) fails with 404 "Project not found" if and only if
\* the store yields no record for the slug (no match, handle absent, or the
\* query raised) and no Sample Dataset entry has the slug; otherwise it
\* returns a record with the requested slug, the store's record when the
\* store yields one.
C3_NotFoundIff ==
  last.op = "get_project" =>
    LET slug == last.arg
        stored == IF db /\ last.calls[1].ok
                    THEN SelectSeq(project, LAMBDA d : d.slug = slug)
                    ELSE << >>
        inSample == \E i \in 1..Len(SAMPLE_PROJECTS) :
                      SAMPLE_PROJECTS[i].slug = slug
    IN  /\ last.status \in {200, 404}
        /\ (last.status = 404) <=> (stored = << >> /\ ~inSample)
        /\ last.status = 404 => last.body = [detail |-> "Project not found"]
        /\ last.status = 200 =>
             /\ last.body.slug = slug
             /\ stored # << >> =>
                  /\ "id" \in DOMAIN last.body
                  /\ last.body.id = Str(stored[1]["_id"])
                  /\ last.body.title = stored[1].title
             /\ stored = << >> =>
                  \E i \in 1..Len(SAMPLE_PROJECTS) :
                    last.body = SAMPLE_PROJECTS[i]

C3_Witness ==
  /\ last.op = "get_project"
  /\ last.arg = "immersive-brand-microsite"
  /\ db
  /\ last.status = 200
  /\ last.body.title = "Immersive Brand Microsite (2025 edition)"

\* the records a response returns
Returned(resp) ==
  IF resp.op = "list_projects" /\ resp.status = 200 THEN resp.body.projects
  ELSE IF resp.op = "get_project" /\ resp.status = 200 THEN << resp.body >>
  ELSE << >>

\* the records the store handed the handler in the query it answered from
\* (none when the handle is absent or that query raised)
StoreSourced(resp) ==
  IF Len(resp.calls) > 0 /\ resp.calls[Len(resp.calls)].ok
    THEN resp.calls[Len(resp.calls)].result
    ELSE << >>

\* out is d with its internal identifier renamed to id, as a string
Renamed(d, out) ==
  /\ DOMAIN out = (DOMAIN d \ {"_id"}) \cup {"id"}
  /\ out.id = Str(d["_id"])
  /\ \A k \in DOMAIN d \ {"_id"} : out[k] = d[k]

\* C4: no record returned by list_projects or get_project carries the
\* internal identifier field _id; a store-sourced record that had _id is
\* returned with an id field holding the string form of that identifier.
C4_NoInternalId ==
  last.op \in {"list_projects", "get_project"} =>
    /\ \A i \in 1..Len(Returned(last)) : "_id" \notin DOMAIN Returned(last)[i]
    /\ StoreSourced(last) # << >> =>
         /\ Len(Returned(last)) = Len(StoreSourced(last))
         /\ \A i \in 1..Len(StoreSourced(last)) :
              "_id" \in DOMAIN StoreSourced(last)[i] =>
                Renamed(StoreSourced(last)[i], Returned(last)[i])

C4_Witness ==
  /\ last.op = "list_projects"
  /\ Len(StoreSourced(last)) >= 2
  /\ "_id" \in DOMAIN StoreSourced(last)[2]
  /\ last.body.projects[2].id = Str(StoreSourced(last)[2]["_id"])

SeedingOrder(calls) ==
  /\ Len(calls) <= Len(SAMPLE_PROJECTS) + 2
  /\ \A j \in 2..Len(calls) :
       IF j <= Len(SAMPLE_PROJECTS) + 1
         THEN /\ calls[j].op = "create_document"
              /\ calls[j].coll = "project"
              /\ calls[j].arg = SAMPLE_PROJECTS[j - 1]
         ELSE /\ calls[j].op = "get_documents"
              /\ calls[j].coll = "project"

\* the first query of the request was answered, with no record
FoundEmpty(calls) ==
  /\ Len(calls) >= 1
  /\ calls[1].op = "get_documents"
  /\ calls[1].ok
  /\ calls[1].result = << >>

\* C6: a list_projects call that finds the store available and its first
\* query empty makes exactly one create_document attempt per Sample Dataset
\* entry, in dataset order, whether or not earlier attempts raised, and then
\* re-queries the store exactly once.
C6_OneAttemptEach ==
  /\ \A w \in Workers :
       lp[w].pc # "idle" =>
         /\ FoundEmpty(lp[w].calls)
         /\ SeedingOrder(lp[w].calls)
         /\ Len(lp[w].calls) = lp[w].i
         /\ lp[w].pc = "requery" <=> lp[w].i = Len(SAMPLE_PROJECTS) + 1
  /\ (last.op = "list_projects" /\ FoundEmpty(last.calls)) =>
       /\ Len(last.calls) = Len(SAMPLE_PROJECTS) + 2
       /\ SeedingOrder(last.calls)

C6_Witness ==
  /\ last.op = "list_projects"
  /\ FoundEmpty(last.calls)
  /\ Len(last.calls) = 5
  /\ ~last.calls[2].ok
  /\ last.calls[3].ok
  /\ ~last.calls[4].ok

\* every store call of the request went through
NothingRaised(calls) == \A i \in 1..Len(calls) : calls[i].ok

\* out holds the entries of want, in order, each with an id field added
EquivalentTo(out, want) ==
  /\ Len(out) = Len(want)
  /\ \A i \in 1..Len(want) :
       /\ DOMAIN out[i] = DOMAIN want[i] \cup {"id"}
       /\ \A k \in DOMAIN want[i] : out[i][k] = want[i][k]

\* the project collection holds what this request wrote and nothing else
OnlyOwnWrites == Len(project) = Len(SAMPLE_PROJECTS)

C9_FallbackOnEmpty ==
  (/\ last.op = "list_projects"
   /\ Admissible(last.arg)
   /\ FoundEmpty(last.calls)
   /\ StoreSourced(last) = << >>)
  => last.body.projects = SamplePrefix(last.arg)

\* C9, amended: the handler falls back to the Sample Dataset when the handle
\* is absent or a query raises; when the store is available, and the first
\* query and the re-query after the seed attempts both answer with no
\* record, the response is the empty project list.
C9_EmptyWhenStillEmpty ==
  (last.op = "list_projects" /\ Admissible(last.arg)) =>
    IF ~db \/ ReadRaised(last.calls)
      THEN last.body.projects = SamplePrefix(last.arg)
      ELSE /\ Len(last.body.projects) = Len(StoreSourced(last))
           /\ FoundEmpty(last.calls) /\ StoreSourced(last) = << >>
                => last.body.projects = << >>

C9_Witness ==
  /\ last.op = "list_projects"
  /\ db
  /\ Len(last.calls) = 5
  /\ NothingRaised(<< last.calls[1], last.calls[5] >>)
  /\ \A j \in 2..4 : ~last.calls[j].ok
  /\ last.body.projects = << >>

\* the step is a seed write of worker w that went through
SeedWrite(w) ==
  /\ lp[w].pc = "seed"
  /\ FoundEmpty(lp[w].calls)
  /\ lp[w].i \in 1..Len(SAMPLE_PROJECTS)
  /\ Len(project') = Len(project) + 1
  /\ SubSeq(project', 1, Len(project)) = project
  /\ \A k \in DOMAIN SAMPLE_PROJECTS[lp[w].i] :
       project'[Len(project')][k] = SAMPLE_PROJECTS[lp[w].i][k]
  /\ lp'[w].calls = Append(lp[w].calls, lp'[w].calls[Len(lp'[w].calls)])
  /\ lp'[w].calls[Len(lp'[w].calls)].op = "create_document"

\* C10: the project collection is written only by a seed write of a
\* list_projects request whose own first query returned no record; the
\* message collection only by submit_contact, one record at a time;
\* get_project changes neither collection, submit_contact leaves the project
\* collection alone, and a list_projects request whose first query is not
\* empty answers at once and changes neither.
C10_WritesOnlyWhenSeeding ==
  [][ /\ project' # project =>
           /\ \E w \in Workers : SeedWrite(w)
           /\ message' = message
      /\ message' # message =>
           /\ last = NoResponse
           /\ last'.op = "submit_contact"
           /\ SubSeq(message', 1, Len(message)) = message
           /\ Len(message') = Len(message) + 1
      /\ (last = NoResponse /\ last' # NoResponse) =>
           /\ project' = project
           /\ last'.op # "submit_contact" => message' = message
      /\ \A w \in Workers :
           (lp[w].pc = "idle" /\ lp'[w].pc # "idle") =>
             /\ lp'[w].pc = "seed"
             /\ FoundEmpty(lp'[w].calls)
             /\ project = << >>
             /\ project' = project /\ message' = message
    ]_vars

C10_Witness ==
  /\ last.op = "get_project"
  /\ db
  /\ last.calls[1].ok
  /\ last.status = 200
  /\ project = << >>
  /\ message = << >>

====
